---- MODULE Spec2Model ----
(***************************************************************************)
(* Model of the ParkedDomain operator: the Reconcile entry point of        *)
(* ParkedDomainReconciler, its finalizer gate, and the S3 / Route 53       *)
(* helper functions it calls.  The repository holds two revisions of the   *)
(* zone helper (list-then-adopt, and status-check-then-create with a       *)
(* placeholder on conflict) and two revisions of the S3 helpers (a shared  *)
(* client, and a per-region client factory).  The revision in use is part  *)
(* of the environment `env` and is chosen in Init.                         *)
(*                                                                         *)
(* One Reconcile action is one whole invocation.  Its inputs are the       *)
(* remote or store call that fails in it (if any), whether the status      *)
(* write fails, and whether somebody else removes the remote resource      *)
(* while a teardown is running.  `inv` records what the last invocation    *)
(* did: every call it issued, in order, and the result of every stage.     *)
(*                                                                         *)
(* Two invocations in flight at once, for two intents, take one remote or  *)
(* store call per step; their intents, buckets and positions are in `cc`.  *)
(***************************************************************************)
EXTENDS Integers, Sequences, FiniteSets, TLC

VARIABLES pd, r53, s3, env, now, inv, budget, cc

vars == <<pd, r53, s3, env, now, inv, budget, cc>>

-----------------------------------------------------------------------------
(* Bounds of the model. *)

\* Zones the provider creates in one behaviour.
MaxZones == 2

\* Ticks of the wall clock (seconds) in one behaviour.
MaxTime == 1

\* Object keys one ListObjectsV2 page holds.
PageSize == 1

\* Invocations that meet a fault, in the behaviours where faults stop.
MaxFaults == 2

-----------------------------------------------------------------------------
(* Names. *)

finalizerName == "parking.minibaev.eu/finalizer"

ForeignFinalizer == "other.example/finalizer"

DomainName == "test.example.com"

PdName == "test-domain"

OtherZoneName == "test.example.org."

ZoneNameOf(domainName) == domainName \o "."

Placeholder == "{{DOMAIN_NAME}}"

PlaceholderZoneID == "EXISTING_ZONE_ID_PLACEHOLDER"

Regions == {"", "us-east-1", "us-west-1", "us-west-2", "eu-west-1",
            "eu-central-1", "ap-south-1"}

TemplateNames == {"", "custom.html", "missing.html"}

\* Data of the template ConfigMap: key -> content, a sequence of tokens.
TemplateData ==
    [k \in {"default.html", "custom.html"} |->
        IF k = "default.html"
        THEN <<"<h1>", Placeholder, "</h1>", Placeholder>>
        ELSE <<"<p>", Placeholder, "</p>">>]

\* Identifiers the provider hands out, in order of creation.
ZoneIdTable == <<"Z1", "Z2", "Z3", "Z4", "Z5", "Z6">>

PreZoneId == "ZPRE"

OtherZoneId == "ZOTHER"

BareIds == {ZoneIdTable[i] : i \in 1..Len(ZoneIdTable)} \cup {PreZoneId, OtherZoneId}

\* The provider's form of a zone identifier.
ProviderId(bare) == "/hostedzone/" \o bare

\* strings.Replace(id, "/hostedzone/", "", 1)
StripHostedZonePrefix(id) ==
    IF \E b \in BareIds : ProviderId(b) = id
    THEN CHOOSE b \in BareIds : ProviderId(b) = id
    ELSE id

\* The delegation set the provider assigns to a zone.
DelegationSet(bare) == <<"ns-1." \o bare, "ns-2." \o bare>>

NoErr == ""

-----------------------------------------------------------------------------
(* The record of calls of one invocation, and failure injection. *)

Call(op, target, arg, res) == [op |-> op, target |-> target, arg |-> arg, res |-> res]

CountOp(calls, op) == Cardinality({i \in 1..Len(calls) : calls[i].op = op})

NoFail == [op |-> "none", n |-> 1]

\* The call about to be issued is the one the input `fail` makes fail.
Fails(fail, calls, op) == fail.op = op /\ fail.n = CountOp(calls, op) + 1

\* The operations that change remote state.
MutatingOps == {"CreateHostedZone", "ChangeResourceRecordSets", "DeleteHostedZone",
                "CreateBucket", "PutObject", "PutBucketWebsite", "PutBucketPolicy",
                "DeleteObjects", "DeleteBucket"}

Issued(calls, op) == \E i \in 1..Len(calls) : calls[i].op = op

Succeeded(calls, op) == \E i \in 1..Len(calls) : calls[i].op = op /\ calls[i].res = NoErr

-----------------------------------------------------------------------------
(* The storage provider: one bucket name, the domain's. *)

AbsentBucket ==
    [exists |-> FALSE, location |-> "", objects |-> <<>>, website |-> "", policy |-> ""]

\* Keys in the order ListObjectsV2 returns them.
KeyOrder == <<"index.html", "old.html">>

\* The keys of bucket b, in listing order.
ListedKeys(b) == SelectSeq(KeyOrder, LAMBDA k : k \in DOMAIN b.objects)

Take(s, n) == SubSeq(s, 1, IF Len(s) < n THEN Len(s) ELSE n)

Drop(s, n) == SubSeq(s, (IF Len(s) < n THEN Len(s) ELSE n) + 1, Len(s))

SeqRange(s) == {s[i] : i \in 1..Len(s)}

S3CreateBucket(b, location) ==
    [exists |-> TRUE, location |-> location, objects |-> <<>>, website |-> "", policy |-> ""]

\* CreateBucket of a name that is taken.
S3CreateBucketError(b) == IF b.exists THEN "BucketAlreadyOwnedByYou" ELSE NoErr

S3PutObject(b, key, content) ==
    [b EXCEPT !.objects = [k \in (DOMAIN b.objects) \cup {key} |->
                              IF k = key THEN content ELSE b.objects[k]]]

S3DeleteObjects(b, keys) ==
    [b EXCEPT !.objects = [k \in (DOMAIN b.objects) \ keys |-> b.objects[k]]]

\* The error a bucket-level call returns for the bucket as it is ("" for none).
S3BucketError(b) == IF b.exists THEN NoErr ELSE "NoSuchBucket"

S3DeleteBucketError(b) ==
    IF ~b.exists THEN "NoSuchBucket"
    ELSE IF DOMAIN b.objects # {} THEN "BucketNotEmpty"
    ELSE NoErr

-----------------------------------------------------------------------------
(* reconcileS3Bucket *)

DefaultRegion(region) == IF region = "" THEN "eu-central-1" ELSE region

DefaultTemplate(templateName) == IF templateName = "" THEN "default.html" ELSE templateName

\* strings.ReplaceAll(templateContent, "{{DOMAIN_NAME}}", domainName)
ReplaceAll(content, domainName) ==
    [i \in 1..Len(content) |-> IF content[i] = Placeholder THEN domainName ELSE content[i]]

PolicyFor(bucketName) ==
    "PublicReadGetObject:Allow:*:s3:GetObject:arn:aws:s3:::" \o bucketName \o "/*"

WebsiteEndpoint(bucketName, region) ==
    bucketName \o ".s3-website." \o region \o ".amazonaws.com"

\* CreateBucketConfiguration.LocationConstraint; "" when the configuration is omitted.
LocationConstraint(region) == IF region = "us-east-1" THEN "" ELSE region

BucketResult(endpoint, err, b, calls) ==
    [endpoint |-> endpoint, err |-> err, s3 |-> b, calls |-> calls]

\* Step 4: the public-read policy, and the endpoint.
PutPolicyStep(p, b, calls, fail) ==
    LET bucketName == p.domainName
        e == IF Fails(fail, calls, "PutBucketPolicy") THEN "Transient" ELSE S3BucketError(b)
        c == Append(calls, Call("PutBucketPolicy", bucketName, <<PolicyFor(bucketName)>>, e))
    IN IF e # NoErr
       THEN BucketResult("", "failed to apply S3 bucket policy", b, c)
       ELSE BucketResult(WebsiteEndpoint(bucketName, DefaultRegion(p.region)), NoErr,
                         [b EXCEPT !.policy = PolicyFor(bucketName)], c)

\* Step 3: static website hosting.
PutWebsiteStep(p, b, calls, fail) ==
    LET bucketName == p.domainName
        e == IF Fails(fail, calls, "PutBucketWebsite") THEN "Transient" ELSE S3BucketError(b)
        c == Append(calls, Call("PutBucketWebsite", bucketName, <<"index.html">>, e))
    IN IF e # NoErr
       THEN BucketResult("", "failed to enable S3 static website hosting", b, c)
       ELSE PutPolicyStep(p, [b EXCEPT !.website = "index.html"], c, fail)

\* Step 2: fetch the template, replace the placeholder, upload index.html.
UploadStep(p, b, cfg, calls, fail) ==
    LET bucketName == p.domainName
        templateName == DefaultTemplate(p.templateName)
        ge == IF Fails(fail, calls, "GetConfigMap") THEN "Transient" ELSE NoErr
        c1 == Append(calls, Call("GetConfigMap", cfg.cmName, <<>>, ge))
    IN IF cfg.cmName = ""
       THEN BucketResult("", "TEMPLATE_CONFIGMAP_NAME environment variable must be set", b, calls)
       ELSE IF ge # NoErr
       THEN BucketResult("", "failed to get template ConfigMap", b, c1)
       ELSE IF templateName \notin DOMAIN TemplateData
       THEN BucketResult("", "template key not found in ConfigMap", b, c1)
       ELSE
         LET finalContent == ReplaceAll(TemplateData[templateName], p.domainName)
             pe == IF Fails(fail, c1, "PutObject") THEN "Transient" ELSE S3BucketError(b)
             c2 == Append(c1, Call("PutObject", bucketName, finalContent, pe))
         IN IF pe # NoErr
            THEN BucketResult("", "failed to upload final index.html", b, c2)
            ELSE PutWebsiteStep(p, S3PutObject(b, "index.html", finalContent), c2, fail)

\* Step 1 without the existence check: CreateBucket on every call.
CreateWithoutHead(p, b, cfg, calls, fail) ==
    LET ce == IF Fails(fail, calls, "CreateBucket") THEN "Transient" ELSE S3CreateBucketError(b)
        c == Append(calls, Call("CreateBucket", p.domainName,
                                <<LocationConstraint(DefaultRegion(p.region))>>, ce))
    IN IF ce # NoErr
       THEN BucketResult("", "failed to create S3 bucket", b, c)
       ELSE UploadStep(p, S3CreateBucket(b, LocationConstraint(DefaultRegion(p.region))),
                       cfg, c, fail)

\* Step 1 taking a bucket that exists for a finished one.
HeadSkipsExisting(p, b, cfg, calls, fail) ==
    LET he == IF Fails(fail, calls, "HeadBucket") THEN "Transient"
              ELSE IF b.exists THEN NoErr ELSE "NotFound"
        c == Append(calls, Call("HeadBucket", p.domainName, <<>>, he))
    IN IF he = NoErr
       THEN BucketResult(WebsiteEndpoint(p.domainName, DefaultRegion(p.region)), NoErr, b, c)
       ELSE CreateWithoutHead(p, b, cfg, c, fail)

\* Step 1: HeadBucket, and CreateBucket when it answers NotFound.
HeadCreateStep(p, b, cfg, calls, fail) ==
    LET bucketName == p.domainName
        region == DefaultRegion(p.region)
        he == IF Fails(fail, calls, "HeadBucket") THEN "Transient"
              ELSE IF b.exists THEN NoErr ELSE "NotFound"
        c1 == Append(calls, Call("HeadBucket", bucketName, <<>>, he))
        ce == IF Fails(fail, c1, "CreateBucket") THEN "Transient" ELSE S3CreateBucketError(b)
        c2 == Append(c1, Call("CreateBucket", bucketName, <<LocationConstraint(region)>>, ce))
    IN IF he = NoErr THEN UploadStep(p, b, cfg, c1, fail)
       ELSE IF he # "NotFound"
       THEN BucketResult("", "failed to check S3 bucket existence", b, c1)
       ELSE IF ce # NoErr
       THEN BucketResult("", "failed to create S3 bucket", b, c2)
       ELSE UploadStep(p, S3CreateBucket(b, LocationConstraint(region)), cfg, c2, fail)

\* r.S3ClientFactory.GetClient(ctx, region), in the factory revision only.
GetClientError(cfg, calls, fail) ==
    IF cfg.s3Impl = "factory" /\ Fails(fail, calls, "GetClient")
    THEN "failed to load AWS config for region" ELSE NoErr

GetClientCalls(cfg, p, calls, fail) ==
    IF cfg.s3Impl = "factory"
    THEN Append(calls, Call("GetClient", DefaultRegion(p.region), <<>>,
                            IF Fails(fail, calls, "GetClient") THEN "Transient" ELSE NoErr))
    ELSE calls

reconcileS3Bucket(p, b, cfg, calls, fail) ==
    IF GetClientError(cfg, calls, fail) # NoErr
    THEN BucketResult("", GetClientError(cfg, calls, fail), b, GetClientCalls(cfg, p, calls, fail))
    ELSE HeadCreateStep(p, b, cfg, GetClientCalls(cfg, p, calls, fail), fail)

-----------------------------------------------------------------------------
(* cleanupS3Bucket *)

CleanupResult(err, b, calls) == [err |-> err, s3 |-> b, calls |-> calls]

\* errors.As(err, &target) of the DeleteBucket error check: the factory revision
\* looks for NoSuchBucket, the shared-client revision for NotFound.
DeleteBucketErrorIsBenign(cfg, e) ==
    IF cfg.s3Impl = "factory" THEN e = "NoSuchBucket" ELSE e = "NotFound"

\* The ListObjectsV2 error check: only the factory revision has one.
ListErrorIsBenign(cfg, e) == cfg.s3Impl = "factory" /\ e = "NoSuchBucket"

\* Every DeleteObjects error is taken for success.
DeleteObjectsErrorIgnored(cfg, e) == TRUE

\* The DeleteObjects error check: neither revision has one.
DeleteObjectsErrorIsBenign(cfg, e) == FALSE

\* s3Client.DeleteBucket and the check of its error.
DeleteBucketStep(p, b, cfg, calls, fail) ==
    LET e == IF Fails(fail, calls, "DeleteBucket") THEN "Transient" ELSE S3DeleteBucketError(b)
        c == Append(calls, Call("DeleteBucket", p.domainName, <<>>, e))
    IN IF e = NoErr THEN CleanupResult(NoErr, AbsentBucket, c)
       ELSE IF DeleteBucketErrorIsBenign(cfg, e) THEN CleanupResult(NoErr, b, c)
       ELSE CleanupResult("failed to delete S3 bucket", b, c)

\* The paginator loop: `rest` holds the keys not listed yet; with race = "afterList"
\* somebody else deletes the bucket right after the first page was listed.
RECURSIVE EmptyBucketLoop(_, _, _, _, _, _, _)
EmptyBucketLoop(p, b, cfg, rest, calls, fail, race) ==
    LET le == IF Fails(fail, calls, "ListObjectsV2") THEN "Transient" ELSE S3BucketError(b)
        c1 == Append(calls, Call("ListObjectsV2", p.domainName, <<>>, le))
        page == Take(rest, PageSize)
        b1 == IF race = "afterList" /\ CountOp(calls, "ListObjectsV2") = 0
              THEN AbsentBucket ELSE b
        de == IF Fails(fail, c1, "DeleteObjects") THEN "Transient" ELSE S3BucketError(b1)
        c2 == IF Len(page) > 0
              THEN Append(c1, Call("DeleteObjects", p.domainName, page, de))
              ELSE c1
        b2 == IF Len(page) > 0 THEN S3DeleteObjects(b1, SeqRange(page)) ELSE b1
    IN IF le # NoErr
       THEN IF ListErrorIsBenign(cfg, le)
            THEN CleanupResult(NoErr, b, c1)
            ELSE CleanupResult("failed to list objects in S3 bucket for deletion", b, c1)
       ELSE IF Len(page) > 0 /\ de # NoErr
       THEN IF DeleteObjectsErrorIsBenign(cfg, de)
            THEN CleanupResult(NoErr, b1, c2)
            ELSE CleanupResult("failed to delete objects from S3 bucket", b1, c2)
       ELSE IF Len(rest) > PageSize
       THEN EmptyBucketLoop(p, b2, cfg, Drop(rest, PageSize), c2, fail, race)
       ELSE DeleteBucketStep(p, b2, cfg, c2, fail)

cleanupS3Bucket(p, b, cfg, calls, fail, race) ==
    IF GetClientError(cfg, calls, fail) # NoErr
    THEN CleanupResult(GetClientError(cfg, calls, fail), b, GetClientCalls(cfg, p, calls, fail))
    ELSE EmptyBucketLoop(p, b, cfg, ListedKeys(b), GetClientCalls(cfg, p, calls, fail), fail, race)

-----------------------------------------------------------------------------
(* The DNS provider. *)

\* r53.zones: bare zone id -> [name, records]; r53.refs: the caller references
\* used so far; r53.created: how many zones the provider has created.

DefaultRecords(zoneName) ==
    {[name |-> zoneName, type |-> "NS", aliasZone |-> "", dnsName |-> ""],
     [name |-> zoneName, type |-> "SOA", aliasZone |-> "", dnsName |-> ""]}

NewZone(zoneName) == [name |-> zoneName, records |-> DefaultRecords(zoneName)]

\* The provider accepts an identifier with or without its path prefix.
R53ZoneError(r, id) ==
    IF StripHostedZonePrefix(id) \in DOMAIN r.zones THEN NoErr ELSE "NoSuchHostedZone"

ZonesNamed(r, zoneName) == {z \in DOMAIN r.zones : r.zones[z].name = zoneName}

\* ListHostedZonesByName(DNSName): the zones in name order, starting at DNSName.
\* The first one is a zone of that name if there is one, else the next name.
\* OtherZoneName sorts after the domain's zone name.
R53FirstZones(r, dnsName) ==
    IF ZonesNamed(r, ZoneNameOf(dnsName)) # {} THEN ZonesNamed(r, ZoneNameOf(dnsName))
    ELSE ZonesNamed(r, OtherZoneName)

\* A caller reference without the intent's name.
CallerReferenceNameless(name, t) == <<"parkeddomain-operator", "", t>>

CallerReference(name, t) == <<"parkeddomain-operator", name, t>>

R53CreateError(r, ref) == IF ref \in r.refs THEN "HostedZoneAlreadyExists" ELSE NoErr

R53Create(r, zoneName, ref) ==
    LET id == ZoneIdTable[r.created + 1]
    IN [zones |-> [z \in (DOMAIN r.zones) \cup {id} |->
                      IF z = id THEN NewZone(zoneName) ELSE r.zones[z]],
        refs |-> r.refs \cup {ref},
        created |-> r.created + 1]

\* UPSERT of one record: replace the record of that name and type.
R53Upsert(r, id, rec) ==
    [r EXCEPT !.zones[id].records =
        {x \in @ : ~(x.name = rec.name /\ x.type = rec.type)} \cup {rec}]

R53DeleteRecords(r, id, recs) == [r EXCEPT !.zones[id].records = @ \ recs]

R53DeleteZoneError(r, id) ==
    IF id \notin DOMAIN r.zones THEN "NoSuchHostedZone"
    ELSE IF \E x \in r.zones[id].records : x.type \notin {"NS", "SOA"}
    THEN "HostedZoneNotEmpty"
    ELSE NoErr

R53DeleteZone(r, id) == [r EXCEPT !.zones = [z \in (DOMAIN r.zones) \ {id} |-> r.zones[z]]]

-----------------------------------------------------------------------------
(* reconcileRoute53Zone, both revisions *)

ZoneResult(zoneID, ns, err, r, calls) ==
    [zoneID |-> zoneID, nameservers |-> ns, err |-> err, r53 |-> r, calls |-> calls]

\* What the conflict branch of the create-first revision returns.
ConflictResult(r, calls) == ZoneResult(PlaceholderZoneID, <<>>, NoErr, r, calls)

\* CreateHostedZone and the use of its output; `onConflict` says whether a
\* HostedZoneAlreadyExists error is caught (the create-first revision).
CreateZoneStep(p, r, calls, fail, t, onConflict) ==
    LET ref == CallerReference(p.name, t)
        e == IF Fails(fail, calls, "CreateHostedZone") THEN "Transient"
             ELSE R53CreateError(r, ref)
        c == Append(calls, Call("CreateHostedZone", p.domainName, ref, e))
        r1 == R53Create(r, ZoneNameOf(p.domainName), ref)
        id == ProviderId(ZoneIdTable[r.created + 1])
    IN IF e = NoErr
       THEN ZoneResult(StripHostedZonePrefix(id), DelegationSet(StripHostedZonePrefix(id)),
                       NoErr, r1, c)
       ELSE IF onConflict /\ e = "HostedZoneAlreadyExists"
       THEN ConflictResult(r, c)
       ELSE ZoneResult("", <<>>, "failed to create Route 53 Hosted Zone", r, c)

\* The listing's first zone is never taken for the domain's.
ExactMatchNever(r, first, domainName) == FALSE

\* The name of the listing's first zone is not compared.
ExactMatchAnyZone(r, first, domainName) == first \in DOMAIN r.zones

\* len(HostedZones) > 0 && *HostedZones[0].Name == domainName + "."
ExactMatch(r, first, domainName) ==
    first \in DOMAIN r.zones /\ r.zones[first].name = domainName \o "."

\* The list-then-adopt revision.  `first` is HostedZones[0] of the listing
\* ("" when the listing is empty).
reconcileRoute53ZoneAdopt(p, r, calls, fail, t, first) ==
    LET le == IF Fails(fail, calls, "ListHostedZonesByName") THEN "Transient" ELSE NoErr
        c1 == Append(calls, Call("ListHostedZonesByName", p.domainName, <<>>, le))
        ge == IF Fails(fail, c1, "GetHostedZone") THEN "Transient"
              ELSE R53ZoneError(r, ProviderId(first))
        c2 == Append(c1, Call("GetHostedZone", ProviderId(first), <<>>, ge))
    IN IF le # NoErr
       THEN ZoneResult("", <<>>, "failed to list hosted zones", r, c1)
       ELSE IF ExactMatch(r, first, p.domainName)
       THEN IF ge # NoErr
            THEN ZoneResult("", <<>>, "failed to get details for existing hosted zone", r, c2)
            ELSE ZoneResult(StripHostedZonePrefix(ProviderId(first)),
                            DelegationSet(first), NoErr, r, c2)
       ELSE CreateZoneStep(p, r, c1, fail, t, FALSE)

\* The create-first revision: trust a persisted zoneID, else create.
reconcileRoute53ZoneCreateFirst(p, r, calls, fail, t) ==
    IF p.status.ZoneID # ""
    THEN ZoneResult(p.status.ZoneID, p.status.NameServers, NoErr, r, calls)
    ELSE CreateZoneStep(p, r, calls, fail, t, TRUE)

reconcileRoute53Zone(p, r, cfg, calls, fail, t, first) ==
    IF cfg.zoneImpl = "adopt"
    THEN reconcileRoute53ZoneAdopt(p, r, calls, fail, t, first)
    ELSE reconcileRoute53ZoneCreateFirst(p, r, calls, fail, t)

-----------------------------------------------------------------------------
(* reconcileRoute53ARecord *)

\* The table with a fallback to the default region's entry.
getS3WebsiteHostedZoneIDFallback(region) ==
    IF region \in {"us-east-1", "us-west-1", "us-west-2", "eu-west-1"}
    THEN "Z3AQBSTGFYJSTF"
    ELSE "Z21DNDUVLTQW6Q"

\* The table with the entries of us-west-1 and us-west-2 exchanged.
getS3WebsiteHostedZoneIDSwapped(region) ==
    CASE region = "us-east-1" -> "Z3AQBSTGFYJSTF"
      [] region = "us-west-1" -> "Z3BJ6K6RIION7M"
      [] region = "us-west-2" -> "Z2F56UZL2M1ACD"
      [] region = "eu-west-1" -> "Z1BKCTXD74EZPE"
      [] region = "eu-central-1" -> "Z21DNDUVLTQW6Q"
      [] OTHER -> ""

\* The fixed table; "" for a region that is not in it.
getS3WebsiteHostedZoneID(region) ==
    CASE region = "us-east-1" -> "Z3AQBSTGFYJSTF"
      [] region = "us-west-1" -> "Z2F56UZL2M1ACD"
      [] region = "us-west-2" -> "Z3BJ6K6RIION7M"
      [] region = "eu-west-1" -> "Z1BKCTXD74EZPE"
      [] region = "eu-central-1" -> "Z21DNDUVLTQW6Q"
      [] OTHER -> ""

AliasRecord(domainName, s3HostedZoneID, s3Endpoint) ==
    [name |-> domainName, type |-> "A", aliasZone |-> s3HostedZoneID, dnsName |-> s3Endpoint]

\* The argument of the recorded call: action, then the record's fields.
ChangeArg(action, rec) == <<action, rec.name, rec.type, rec.aliasZone, rec.dnsName>>

RecordResult(err, r, calls) == [err |-> err, r53 |-> r, calls |-> calls]

reconcileRoute53ARecord(p, r, calls, fail, zoneID, s3Endpoint) ==
    LET region == DefaultRegion(p.region)
        s3HostedZoneID == getS3WebsiteHostedZoneID(region)
        rec == AliasRecord(p.domainName, s3HostedZoneID, s3Endpoint)
        e == IF Fails(fail, calls, "ChangeResourceRecordSets") THEN "Transient"
             ELSE R53ZoneError(r, zoneID)
        c == Append(calls, Call("ChangeResourceRecordSets", zoneID, ChangeArg("UPSERT", rec), e))
    IN IF s3HostedZoneID = ""
       THEN RecordResult("unsupported S3 website region for alias record", r, calls)
       ELSE IF e # NoErr
       THEN RecordResult("failed to create/update A record", r, c)
       ELSE RecordResult(NoErr, R53Upsert(r, StripHostedZonePrefix(zoneID), rec), c)

-----------------------------------------------------------------------------
(* cleanupRoute53Zone *)

\* Every change of the batch refers to one loop variable, which holds the
\* last record of the listing (records are listed by name, then type).
RecordsToDeleteLastListed(records) ==
    IF \A x \in records : x.type \in {"NS", "SOA"} THEN {}
    ELSE IF \E x \in records : x.type = "TXT" THEN {x \in records : x.type = "TXT"}
    ELSE {x \in records : x.type = "SOA"}

\* record.Type != "NS" && record.Type != "SOA"
RecordsToDelete(records) == {x \in records : x.type # "NS" /\ x.type # "SOA"}

\* The record types of a change batch, in a fixed order.
TypeOrder == <<"A", "NS", "SOA", "TXT">>

ChangedTypes(changes) == SelectSeq(TypeOrder, LAMBDA ty : \E x \in changes : x.type = ty)

\* The check of the ListResourceRecordSets error: there is none.
ListRecordsErrorIsBenign(e) == FALSE

\* The check of the batch-delete error: there is none.
ChangeErrorIsBenign(e) == FALSE

\* errors.As(err, &nshze) after DeleteHostedZone
DeleteZoneErrorIsBenign(e) == e = "NoSuchHostedZone"

ZoneCleanupResult(err, r, calls) == [err |-> err, r53 |-> r, calls |-> calls]

DeleteZoneStep(r, zoneID, calls, fail) ==
    LET e == IF Fails(fail, calls, "DeleteHostedZone") THEN "Transient"
             ELSE R53DeleteZoneError(r, zoneID)
        c == Append(calls, Call("DeleteHostedZone", zoneID, <<>>, e))
    IN IF e = NoErr THEN ZoneCleanupResult(NoErr, R53DeleteZone(r, zoneID), c)
       ELSE IF DeleteZoneErrorIsBenign(e) THEN ZoneCleanupResult(NoErr, r, c)
       ELSE ZoneCleanupResult("failed to delete Hosted Zone", r, c)

\* With race = "afterList" somebody else deletes the zone right after its
\* records were listed.
cleanupRoute53Zone(p, r, calls, fail, race) ==
    LET zoneID == p.status.ZoneID
        le == IF Fails(fail, calls, "ListResourceRecordSets") THEN "Transient"
              ELSE R53ZoneError(r, zoneID)
        c1 == Append(calls, Call("ListResourceRecordSets", zoneID, <<>>, le))
        changes == IF le = NoErr THEN RecordsToDelete(r.zones[zoneID].records) ELSE {}
        r1 == IF race = "afterList" /\ le = NoErr THEN R53DeleteZone(r, zoneID) ELSE r
        ce == IF Fails(fail, c1, "ChangeResourceRecordSets") THEN "Transient"
              ELSE R53ZoneError(r1, zoneID)
        c2 == IF changes # {}
              THEN Append(c1, Call("ChangeResourceRecordSets", zoneID,
                                   <<"DELETE">> \o ChangedTypes(changes), ce))
              ELSE c1
        r2 == IF changes # {} /\ ce = NoErr THEN R53DeleteRecords(r1, zoneID, changes) ELSE r1
    IN IF zoneID = "" THEN ZoneCleanupResult(NoErr, r, calls)
       ELSE IF le # NoErr
       THEN IF ListRecordsErrorIsBenign(le)
            THEN ZoneCleanupResult(NoErr, r, c1)
            ELSE ZoneCleanupResult("failed to list records in Hosted Zone", r, c1)
       ELSE IF changes # {} /\ ce # NoErr
       THEN IF ChangeErrorIsBenign(ce)
            THEN ZoneCleanupResult(NoErr, r1, c2)
            ELSE ZoneCleanupResult("failed to delete records from Hosted Zone", r1, c2)
       ELSE DeleteZoneStep(r2, zoneID, c2, fail)

-----------------------------------------------------------------------------
(* Reconcile *)

EmptyStatus == [Status |-> "", ZoneID |-> "", NameServers |-> <<>>]

\* What an invocation reports: its result, the calls it issued, and the
\* result of every stage ("skip" for a stage that did not run).
NoInv ==
    [path |-> "none", result |-> NoErr, calls |-> <<>>,
     zone |-> "skip", bucket |-> "skip", record |-> "skip",
     bucketCleanup |-> "skip", zoneCleanup |-> "skip", status |-> "skip",
     zoneID |-> "", nameservers |-> <<>>, endpoint |-> ""]

Outcome(p, r, b, i) == [pd |-> p, r53 |-> r, s3 |-> b, inv |-> i]

\* The store removes an object whose deletion was requested once it has no
\* finalizer left.
StoreSettle(p) ==
    IF p.exists /\ p.deletion /\ p.finalizers = {}
    THEN [p EXCEPT !.exists = FALSE]
    ELSE p

\* r.Status().Update(ctx, pd): writes the status subresource unless it fails.
StatusUpdate(persisted, status, sf) ==
    IF sf THEN persisted ELSE [persisted EXCEPT !.status = status]

StatusCall(p, status, sf) ==
    Call("Status.Update", p.name, <<status.Status, status.ZoneID>>,
         IF sf THEN "Transient" ELSE NoErr)

\* A stage error that writes a status holding nothing but the tag.
StageErrorFreshStatus(p, r, b, i, calls, tag, err, sf) ==
    LET status == [EmptyStatus EXCEPT !.Status = tag]
    IN Outcome(StatusUpdate(p, status, sf), r, b,
               [i EXCEPT !.result = err,
                         !.calls = Append(calls, StatusCall(p, status, sf)),
                         !.status = IF sf THEN "Transient" ELSE NoErr])

\* A stage error: set the stage's tag, write the status ignoring the write's
\* own error, return the stage's error.
StageError(p, r, b, i, calls, tag, err, sf) ==
    LET status == [p.status EXCEPT !.Status = tag]
    IN Outcome(StatusUpdate(p, status, sf), r, b,
               [i EXCEPT !.result = err,
                         !.calls = Append(calls, StatusCall(p, status, sf)),
                         !.status = IF sf THEN "Transient" ELSE NoErr])

\* A Provisioned status that drops the zone's id.
ProvisionedStatusNoZone(zoneID, nameservers) ==
    [Status |-> "Provisioned", ZoneID |-> "", NameServers |-> nameservers]

\* A Provisioned status that drops the name servers.
ProvisionedStatusNoServers(zoneID, nameservers) ==
    [Status |-> "Provisioned", ZoneID |-> zoneID, NameServers |-> <<>>]

\* Step 4: the Provisioned status.
ProvisionedStatus(zoneID, nameservers) ==
    [Status |-> "Provisioned", ZoneID |-> zoneID, NameServers |-> nameservers]

\* The error of the Provisioned status write is dropped.
StatusWriteErrorDropped(sf) == NoErr

\* The error a failed write of the Provisioned status makes Reconcile return.
StatusWriteError(sf) == IF sf THEN "Transient" ELSE NoErr

\* What the invocation record holds of the create path's stages.
StageInv(z, bucketErr, endpoint, recordErr) ==
    [NoInv EXCEPT !.path = "create", !.zone = z.err, !.zoneID = z.zoneID,
                  !.nameservers = z.nameservers, !.bucket = bucketErr,
                  !.endpoint = endpoint, !.record = recordErr]

\* Step 4, after the record stage returned a.
AfterRecord(p, sf, z, s, a) ==
    IF a.err # NoErr
    THEN StageError(p, a.r53, s.s3, StageInv(z, s.err, s.endpoint, a.err), a.calls,
                    "Error: Route53 A Record", a.err, sf)
    ELSE Outcome(StatusUpdate(p, ProvisionedStatus(z.zoneID, z.nameservers), sf), a.r53, s.s3,
                 [StageInv(z, s.err, s.endpoint, a.err) EXCEPT
                     !.result = StatusWriteError(sf),
                     !.calls = Append(a.calls,
                                      StatusCall(p, ProvisionedStatus(z.zoneID, z.nameservers), sf)),
                     !.status = IF sf THEN "Transient" ELSE NoErr])

\* The record stage, after the bucket stage returned s.
AfterBucket(p, fail, sf, z, s) ==
    IF s.err # NoErr
    THEN StageError(p, z.r53, s.s3, StageInv(z, s.err, s.endpoint, "skip"), s.calls,
                    "Error: S3 Bucket", s.err, sf)
    ELSE AfterRecord(p, sf, z, s,
                     reconcileRoute53ARecord(p, z.r53, s.calls, fail, z.zoneID, s.endpoint))

\* The bucket stage, after the zone stage returned z.
AfterZone(p, b, cfg, fail, sf, z) ==
    IF z.err # NoErr
    THEN StageError(p, z.r53, b, StageInv(z, "skip", "", "skip"), z.calls,
                    "Error: Route53 Zone", z.err, sf)
    ELSE AfterBucket(p, fail, sf, z, reconcileS3Bucket(p, b, cfg, z.calls, fail))

\* Steps 3 and 4: zone, bucket, record, status.
CreatePath(p, r, b, cfg, t, calls, fail, sf, first) ==
    AfterZone(p, b, cfg, fail, sf, reconcileRoute53Zone(p, r, cfg, calls, fail, t, first))

\* The bucket teardown's error is dropped.
BucketCleanupAbortsNever(err) == FALSE

\* if err := r.cleanupS3Bucket(ctx, pd); err != nil { return }
BucketCleanupAborts(err) == err # NoErr

\* The zone teardown's error is dropped.
ZoneCleanupAbortsNever(err) == FALSE

\* if err := r.cleanupRoute53Zone(ctx, pd); err != nil { return }
ZoneCleanupAborts(err) == err # NoErr

CleanupInv(bucketErr, zoneErr) ==
    [NoInv EXCEPT !.path = "delete", !.bucketCleanup = bucketErr, !.zoneCleanup = zoneErr]

UpdateError(fail, calls) == IF Fails(fail, calls, "Update") THEN "Transient" ELSE NoErr

\* RemoveFinalizer and Update, after both teardowns returned.
RemoveFinalizerStep(p, fail, s, z) ==
    IF UpdateError(fail, z.calls) # NoErr
    THEN Outcome(p, z.r53, s.s3,
                 [CleanupInv(s.err, z.err) EXCEPT
                     !.result = UpdateError(fail, z.calls),
                     !.calls = Append(z.calls, Call("Update", p.name, <<"RemoveFinalizer">>,
                                                    UpdateError(fail, z.calls)))])
    ELSE Outcome(StoreSettle([p EXCEPT !.finalizers = @ \ {finalizerName}]), z.r53, s.s3,
                 [CleanupInv(s.err, z.err) EXCEPT
                     !.calls = Append(z.calls, Call("Update", p.name, <<"RemoveFinalizer">>,
                                                    NoErr))])

\* After the zone teardown returned z.
AfterZoneCleanup(p, fail, s, z) ==
    IF ZoneCleanupAborts(z.err)
    THEN Outcome(p, z.r53, s.s3,
                 [CleanupInv(s.err, z.err) EXCEPT !.result = z.err, !.calls = z.calls])
    ELSE RemoveFinalizerStep(p, fail, s, z)

\* After the bucket teardown returned s.
AfterBucketCleanup(p, r, fail, race, s) ==
    IF BucketCleanupAborts(s.err)
    THEN Outcome(p, r, s.s3,
                 [CleanupInv(s.err, "skip") EXCEPT !.result = s.err, !.calls = s.calls])
    ELSE AfterZoneCleanup(p, fail, s, cleanupRoute53Zone(p, r, s.calls, fail, race))

\* The object is being deleted and holds the finalizer.
DeletePath(p, r, b, cfg, calls, fail, race) ==
    AfterBucketCleanup(p, r, fail, race, cleanupS3Bucket(p, b, cfg, calls, fail, race))

\* Any finalizer is taken for the operator's.
ContainsAnyFinalizer(p) == p.finalizers # {}

\* controllerutil.ContainsFinalizer(pd, finalizerName)
ContainsFinalizer(p) == finalizerName \in p.finalizers

\* Every error of the fetch is taken for a not-found.
IsNotFoundAlways(err) == TRUE

\* apierrors.IsNotFound(err)
IsNotFound(err) == err = "NotFound"

\* The error of the finalizer's Update is dropped.
FinalizerUpdateAbortsNever(err) == FALSE

\* if err := r.Update(ctx, pd); err != nil { return } of the finalizer gate
FinalizerUpdateAborts(err) == err # NoErr

\* The finalizer gate of an object that is not being deleted, then the
\* resource stages.
EnsurePath(p, r, b, cfg, t, calls, fail, sf, first) ==
    LET ue == IF Fails(fail, calls, "Update") THEN "Transient" ELSE NoErr
        c == Append(calls, Call("Update", p.name, <<"AddFinalizer">>, ue))
        p1 == [p EXCEPT !.finalizers = @ \cup {finalizerName}]
    IN IF ContainsFinalizer(p)
       THEN CreatePath(p, r, b, cfg, t, calls, fail, sf, first)
       ELSE IF FinalizerUpdateAborts(ue)
       THEN Outcome(p, r, b, [NoInv EXCEPT !.path = "finalizer", !.result = ue, !.calls = c])
       ELSE CreatePath(p1, r, b, cfg, t, c, fail, sf, first)

\* The deletion marker is never seen.
DeletionTimestampIsZeroAlways(p) == TRUE

\* pd.ObjectMeta.DeletionTimestamp.IsZero()
DeletionTimestampIsZero(p) == ~p.deletion

ReconcileOutcome(p, r, b, cfg, t, fail, sf, race, first) ==
    LET ge == IF Fails(fail, <<>>, "Get") THEN "Transient"
              ELSE IF ~p.exists THEN "NotFound" ELSE NoErr
        c == <<Call("Get", p.name, <<>>, ge)>>
    IN IF ge # NoErr /\ IsNotFound(ge)
       THEN Outcome(p, r, b, [NoInv EXCEPT !.path = "notfound", !.calls = c])
       ELSE IF ge # NoErr
       THEN Outcome(p, r, b, [NoInv EXCEPT !.path = "geterror", !.result = ge, !.calls = c])
       ELSE IF DeletionTimestampIsZero(p)
       THEN EnsurePath(p, r, b, cfg, t, c, fail, sf, first)
       ELSE IF ContainsFinalizer(p)
       THEN DeletePath(p, r, b, cfg, c, fail, race)
       ELSE Outcome(p, r, b, [NoInv EXCEPT !.path = "deleted", !.calls = c])

-----------------------------------------------------------------------------
(* The state machine. *)

\* The calls an invocation can issue on the path the intent is on.
EnsureOps == {"Get", "Update", "ListHostedZonesByName", "GetHostedZone", "CreateHostedZone",
              "GetClient", "HeadBucket", "CreateBucket", "GetConfigMap", "PutObject",
              "PutBucketWebsite", "PutBucketPolicy", "ChangeResourceRecordSets"}

TeardownOps == {"Get", "Update", "GetClient", "DeleteBucket", "ListResourceRecordSets",
                "ChangeResourceRecordSets", "DeleteHostedZone"}

PagedOps == {"ListObjectsV2", "DeleteObjects"}

\* The call that fails in an invocation: none, or the n-th call of an operation.
FailInputs(p) ==
    IF p.exists /\ p.deletion
    THEN {NoFail} \cup {[op |-> o, n |-> 1] : o \in TeardownOps}
                  \cup {[op |-> o, n |-> k] : o \in PagedOps, k \in 1..Len(KeyOrder)}
    ELSE {NoFail} \cup {[op |-> o, n |-> 1] : o \in EnsureOps}

\* Whether the status write fails; the teardown path writes no status.
StatusFailInputs(p) == IF p.exists /\ p.deletion THEN {FALSE} ELSE BOOLEAN

\* Whether somebody else removes the resource during a teardown.
RaceInputs(p) == IF p.exists /\ p.deletion THEN {"none", "afterList"} ELSE {"none"}

\* HostedZones[0] of a listing: any of the first zones in name order, "" if none.
FirstInputs(r, domainName) ==
    IF R53FirstZones(r, domainName) = {} THEN {""} ELSE R53FirstZones(r, domainName)

Intent(region, templateName, finalizers) ==
    [exists |-> TRUE, name |-> PdName, domainName |-> DomainName, region |-> region,
     templateName |-> templateName, deletion |-> FALSE, finalizers |-> finalizers,
     status |-> EmptyStatus]

\* A zone of the domain's name that exists before the intent does, with a
\* record that is not the engine's.
PreZone ==
    [name |-> ZoneNameOf(DomainName),
     records |-> DefaultRecords(ZoneNameOf(DomainName)) \cup
                 {[name |-> DomainName, type |-> "TXT", aliasZone |-> "", dnsName |-> ""]}]

Provider(ids) ==
    [zones |-> [z \in ids |-> IF z = PreZoneId THEN PreZone ELSE NewZone(OtherZoneName)],
     refs |-> {}, created |-> 0]

\* A bucket of the domain's name that exists before the intent does.
PreBucket ==
    [exists |-> TRUE, location |-> "eu-central-1",
     objects |-> [k \in {"old.html"} |-> <<"old">>], website |-> "", policy |-> ""]

Environment(zoneImpl, s3Impl, cmName) ==
    [zoneImpl |-> zoneImpl, s3Impl |-> s3Impl, cmName |-> cmName]

Revisions ==
    {Environment(zi, si, "parking-templates") :
        zi \in {"adopt", "createFirst"}, si \in {"factory", "shared"}}

\* No invocations in flight side by side.
NoneInFlight == [store |-> <<>>, buckets |-> <<>>, procs |-> <<>>]

\* The budget of a behaviour whose faults are not bounded.
Unlimited == MaxFaults + 1

InitWith(pds, rs, bs, es, budgets) ==
    /\ pd \in pds
    /\ r53 \in rs
    /\ s3 \in bs
    /\ env \in es
    /\ now = 0
    /\ inv = NoInv
    /\ budget \in budgets
    /\ cc = NoneInFlight

\* Every revision, with and without a zone of the domain's name; and an
\* intent that carries somebody else's finalizer too.
Init ==
    \/ InitWith({Intent("", "", {})}, {Provider({}), Provider({PreZoneId})},
                {AbsentBucket}, Revisions, {Unlimited})
    \/ InitWith({Intent("", "", {ForeignFinalizer})}, {Provider({})}, {AbsentBucket},
                {Environment("adopt", "factory", "parking-templates")}, {Unlimited})

\* An invocation that meets a fault: a failing call, a failing status write,
\* or a resource removed under a teardown.
Faulty(fail, sf, race) == fail # NoFail \/ sf \/ race # "none"

\* The state an invocation leaves.  A zone is created only while the
\* provider has created fewer than MaxZones.
Leaves(out) ==
    /\ out.r53.created <= MaxZones
    /\ pd' = out.pd
    /\ r53' = out.r53
    /\ s3' = out.s3
    /\ inv' = out.inv
    /\ UNCHANGED <<env, now, cc>>

\* One invocation of Reconcile for the intent's key.
Reconcile ==
    \E fail \in FailInputs(pd), sf \in StatusFailInputs(pd), race \in RaceInputs(pd),
       first \in FirstInputs(r53, pd.domainName) :
        /\ Faulty(fail, sf, race) => budget # 0
        /\ budget' = IF Faulty(fail, sf, race) /\ budget # Unlimited THEN budget - 1 ELSE budget
        /\ Leaves(ReconcileOutcome(pd, r53, s3, env, now, fail, sf, race, first))

\* The store marks the intent for deletion (a user deletes it).
MarkDeletion ==
    /\ pd.exists
    /\ ~pd.deletion
    /\ pd' = StoreSettle([pd EXCEPT !.deletion = TRUE])
    /\ UNCHANGED <<r53, s3, env, now, inv, budget, cc>>

\* The wall clock advances by a second.  The clock is read only to build a
\* caller reference, so a tick shows only once the current second's is used.
Tick ==
    /\ now < MaxTime
    /\ CallerReference(pd.name, now) \in r53.refs
    /\ now' = now + 1
    /\ UNCHANGED <<pd, r53, s3, env, inv, budget, cc>>

Next == Reconcile \/ MarkDeletion \/ Tick

Spec == Init /\ [][Next]_vars

\* The inputs of the drivers, under the list-then-adopt zone helper: every
\* region, every template name, an unset template ConfigMap, a zone of
\* another name, and a bucket that exists already (both S3 revisions).
InitDrivers ==
    \/ InitWith({Intent(rg, "", {}) : rg \in Regions}, {Provider({})}, {AbsentBucket},
                {Environment("adopt", "factory", "parking-templates")}, {Unlimited})
    \/ InitWith({Intent("", tn, {}) : tn \in TemplateNames \ {""}},
                {Provider({OtherZoneId})}, {AbsentBucket},
                {Environment("adopt", "factory", "parking-templates")}, {Unlimited})
    \/ InitWith({Intent("", "", {})}, {Provider({PreZoneId, OtherZoneId})}, {AbsentBucket},
                {Environment("adopt", "factory", "")}, {Unlimited})
    \/ InitWith({Intent("us-east-1", "", {})}, {Provider({})}, {PreBucket},
                {Environment("adopt", si, "parking-templates") : si \in {"factory", "shared"}},
                {Unlimited})

SpecDrivers == InitDrivers /\ [][Next]_vars

\* Behaviours without faults, in which Reconcile keeps being invoked.
SupportedRegions == {"", "us-east-1", "us-west-1", "us-west-2", "eu-west-1", "eu-central-1"}

InitNoFaults ==
    \/ InitWith({Intent(rg, "", {}) : rg \in SupportedRegions},
                {Provider({}), Provider({OtherZoneId})}, {AbsentBucket},
                {Environment(zi, "factory", "parking-templates") :
                    zi \in {"adopt", "createFirst"}}, {0})
    \/ InitWith({Intent("", "custom.html", {ForeignFinalizer})}, {Provider({})},
                {AbsentBucket, PreBucket}, Revisions, {0})

SpecNoFaults == InitNoFaults /\ [][Next]_vars /\ WF_vars(Reconcile)

\* Behaviours in which at most MaxFaults invocations meet a fault,
\* Reconcile keeps being invoked (the controller requeues a failed request
\* and is triggered by every change of the object), and the wall clock
\* keeps advancing.
InitBudget ==
    InitWith({Intent("", "", {})}, {Provider({})}, {AbsentBucket},
             {Environment(zi, "factory", "parking-templates") : zi \in {"adopt", "createFirst"}},
             0..MaxFaults)

SpecBudget == InitBudget /\ [][Next]_vars /\ WF_vars(Reconcile) /\ WF_vars(Tick)

-----------------------------------------------------------------------------
(* Two invocations in flight: Reconcile, one remote or store call per step. *)

\* A second domain; its zone name sorts after the first domain's.
SecondDomain == "test.example.org"

IntentFor(namespace, name, domainName) ==
    [exists |-> TRUE, namespace |-> namespace, name |-> name, domainName |-> domainName,
     region |-> "", templateName |-> "", deletion |-> FALSE, finalizers |-> {},
     status |-> EmptyStatus]

\* The locals of an invocation: the fetched object, the zone the listing
\* matched, the results of the zone and bucket stages, the status tag to
\* write and the error to return; pc is the call it issues next.
InFlight(p) ==
    [pc |-> "Get", pd |-> p, first |-> "", zoneID |-> "", nameservers |-> <<>>,
     endpoint |-> "", tag |-> "", result |-> NoErr]

StepResult(q, p, b, r) == [proc |-> q, pd |-> p, s3 |-> b, r53 |-> r]

\* A stage returned err: set the tag; the status write is the next call.
StageFailure(q, tag, err) ==
    [q EXCEPT !.pc = "Status.Update", !.tag = tag, !.result = err]

\* The first call of the zone stage.
ZoneStageStart(q, cfg) ==
    IF cfg.zoneImpl = "adopt" THEN [q EXCEPT !.pc = "ListHostedZonesByName"]
    ELSE IF q.pd.status.ZoneID # ""
    THEN [q EXCEPT !.pc = "GetClient", !.zoneID = q.pd.status.ZoneID,
                   !.nameservers = q.pd.status.NameServers]
    ELSE [q EXCEPT !.pc = "CreateHostedZone"]

\* r.Get and the finalizer gate.
GetCall(q, p, b, r, cfg) ==
    IF ContainsFinalizer(p)
    THEN StepResult(ZoneStageStart([q EXCEPT !.pd = p], cfg), p, b, r)
    ELSE StepResult([q EXCEPT !.pd = p, !.pc = "Update"], p, b, r)

\* controllerutil.AddFinalizer and r.Update
AddFinalizerCall(q, p, b, r, cfg) ==
    StepResult(ZoneStageStart([q EXCEPT !.pd.finalizers = @ \cup {finalizerName}], cfg),
               [p EXCEPT !.finalizers = q.pd.finalizers \cup {finalizerName}], b, r)

\* ListHostedZonesByName and the exact-name test of its first zone.
ListZonesCall(q, p, b, r, first) ==
    IF ExactMatch(r, first, q.pd.domainName)
    THEN StepResult([q EXCEPT !.pc = "GetHostedZone", !.first = first], p, b, r)
    ELSE StepResult([q EXCEPT !.pc = "CreateHostedZone"], p, b, r)

GetZoneCall(q, p, b, r) ==
    IF R53ZoneError(r, ProviderId(q.first)) # NoErr
    THEN StepResult(StageFailure(q, "Error: Route53 Zone",
                                 "failed to get details for existing hosted zone"), p, b, r)
    ELSE StepResult([q EXCEPT !.pc = "GetClient",
                              !.zoneID = StripHostedZonePrefix(ProviderId(q.first)),
                              !.nameservers = DelegationSet(q.first)], p, b, r)

CreateZoneCall(q, p, b, r, cfg, t) ==
    LET ref == CallerReference(q.pd.name, t)
        e == R53CreateError(r, ref)
        id == StripHostedZonePrefix(ProviderId(ZoneIdTable[r.created + 1]))
    IN IF e = NoErr
       THEN StepResult([q EXCEPT !.pc = "GetClient", !.zoneID = id,
                                 !.nameservers = DelegationSet(id)],
                       p, b, R53Create(r, ZoneNameOf(q.pd.domainName), ref))
       ELSE IF cfg.zoneImpl = "createFirst" /\ e = "HostedZoneAlreadyExists"
       THEN StepResult([q EXCEPT !.pc = "GetClient", !.zoneID = PlaceholderZoneID,
                                 !.nameservers = <<>>], p, b, r)
       ELSE StepResult(StageFailure(q, "Error: Route53 Zone",
                                    "failed to create Route 53 Hosted Zone"), p, b, r)

HeadBucketCall(q, p, b, r) ==
    StepResult([q EXCEPT !.pc = IF b.exists THEN "GetConfigMap" ELSE "CreateBucket"], p, b, r)

CreateBucketCall(q, p, b, r) ==
    IF S3CreateBucketError(b) # NoErr
    THEN StepResult(StageFailure(q, "Error: S3 Bucket", "failed to create S3 bucket"), p, b, r)
    ELSE StepResult([q EXCEPT !.pc = "GetConfigMap"], p,
                    S3CreateBucket(b, LocationConstraint(DefaultRegion(q.pd.region))), r)

GetConfigMapCall(q, p, b, r, cfg) ==
    IF cfg.cmName = ""
    THEN StepResult(StageFailure(q, "Error: S3 Bucket",
                                 "TEMPLATE_CONFIGMAP_NAME environment variable must be set"),
                    p, b, r)
    ELSE IF DefaultTemplate(q.pd.templateName) \notin DOMAIN TemplateData
    THEN StepResult(StageFailure(q, "Error: S3 Bucket", "template key not found in ConfigMap"),
                    p, b, r)
    ELSE StepResult([q EXCEPT !.pc = "PutObject"], p, b, r)

\* One of the three writes to the bucket; `written` is the bucket after it.
BucketWriteCall(q, p, b, r, written, next, err) ==
    IF S3BucketError(b) # NoErr
    THEN StepResult(StageFailure(q, "Error: S3 Bucket", err), p, b, r)
    ELSE StepResult(next, p, written, r)

RecordCall(q, p, b, r) ==
    LET s3HostedZoneID == getS3WebsiteHostedZoneID(DefaultRegion(q.pd.region))
        rec == AliasRecord(q.pd.domainName, s3HostedZoneID, q.endpoint)
    IN IF s3HostedZoneID = ""
       THEN StepResult(StageFailure(q, "Error: Route53 A Record",
                                    "unsupported S3 website region for alias record"), p, b, r)
       ELSE IF R53ZoneError(r, q.zoneID) # NoErr
       THEN StepResult(StageFailure(q, "Error: Route53 A Record",
                                    "failed to create/update A record"), p, b, r)
       ELSE StepResult([q EXCEPT !.pc = "Status.Update", !.tag = "Provisioned"], p, b,
                       R53Upsert(r, StripHostedZonePrefix(q.zoneID), rec))

\* r.Status().Update of the tag set before it, then return.
StatusCallStep(q, p, b, r) ==
    LET status == IF q.tag = "Provisioned"
                  THEN ProvisionedStatus(q.zoneID, q.nameservers)
                  ELSE [q.pd.status EXCEPT !.Status = q.tag]
    IN StepResult([q EXCEPT !.pc = "done", !.pd.status = status],
                  StatusUpdate(p, status, FALSE), b, r)

\* The call at q.pc, issued against the store object p, the bucket b and the
\* DNS provider r as they are now.
CallStep(q, p, b, r, cfg, t, first) ==
    CASE q.pc = "Get" -> GetCall(q, p, b, r, cfg)
      [] q.pc = "Update" -> AddFinalizerCall(q, p, b, r, cfg)
      [] q.pc = "ListHostedZonesByName" -> ListZonesCall(q, p, b, r, first)
      [] q.pc = "GetHostedZone" -> GetZoneCall(q, p, b, r)
      [] q.pc = "CreateHostedZone" -> CreateZoneCall(q, p, b, r, cfg, t)
      [] q.pc = "GetClient" -> StepResult([q EXCEPT !.pc = "HeadBucket"], p, b, r)
      [] q.pc = "HeadBucket" -> HeadBucketCall(q, p, b, r)
      [] q.pc = "CreateBucket" -> CreateBucketCall(q, p, b, r)
      [] q.pc = "GetConfigMap" -> GetConfigMapCall(q, p, b, r, cfg)
      [] q.pc = "PutObject" ->
            BucketWriteCall(q, p, b, r,
                S3PutObject(b, "index.html",
                            ReplaceAll(TemplateData[DefaultTemplate(q.pd.templateName)],
                                       q.pd.domainName)),
                [q EXCEPT !.pc = "PutBucketWebsite"], "failed to upload final index.html")
      [] q.pc = "PutBucketWebsite" ->
            BucketWriteCall(q, p, b, r, [b EXCEPT !.website = "index.html"],
                [q EXCEPT !.pc = "PutBucketPolicy"],
                "failed to enable S3 static website hosting")
      [] q.pc = "PutBucketPolicy" ->
            BucketWriteCall(q, p, b, r, [b EXCEPT !.policy = PolicyFor(q.pd.domainName)],
                [q EXCEPT !.pc = "ChangeResourceRecordSets",
                          !.endpoint = WebsiteEndpoint(q.pd.domainName,
                                                       DefaultRegion(q.pd.region))],
                "failed to apply S3 bucket policy")
      [] q.pc = "ChangeResourceRecordSets" -> RecordCall(q, p, b, r)
      [] q.pc = "Status.Update" -> StatusCallStep(q, p, b, r)

\* Two intents with an invocation in flight each, and the buckets of their
\* domains.
Pair(p1, p2) ==
    [store |-> <<p1, p2>>,
     buckets |-> [d \in {p1.domainName, p2.domainName} |-> AbsentBucket],
     procs |-> <<InFlight(p1), InFlight(p2)>>]

\* Different names and domains; one name in two namespaces; one domain
\* requested by two intents.
Pairs ==
    {Pair(IntentFor("default", "a", DomainName), IntentFor("default", "b", SecondDomain)),
     Pair(IntentFor("default", "a", DomainName), IntentFor("staging", "a", SecondDomain)),
     Pair(IntentFor("default", "a", DomainName), IntentFor("default", "b", DomainName))}

InitConcurrent ==
    /\ pd = Intent("", "", {})
    /\ r53 = Provider({})
    /\ s3 = AbsentBucket
    /\ env \in {Environment(zi, "factory", "parking-templates") : zi \in {"adopt", "createFirst"}}
    /\ now = 0
    /\ inv = NoInv
    /\ budget = 0
    /\ cc \in Pairs

\* The next call of one of the two invocations.
ReconcileCall ==
    \E i \in DOMAIN cc.procs :
        /\ cc.procs[i].pc # "done"
        /\ \E first \in IF cc.procs[i].pc = "ListHostedZonesByName"
                        THEN FirstInputs(r53, cc.store[i].domainName) ELSE {""} :
              LET out == CallStep(cc.procs[i], cc.store[i],
                                  cc.buckets[cc.store[i].domainName], r53, env, now, first)
              IN /\ out.r53.created <= MaxZones
                 /\ cc' = [cc EXCEPT !.procs[i] = out.proc, !.store[i] = out.pd,
                                     !.buckets[cc.store[i].domainName] = out.s3]
                 /\ r53' = out.r53
        /\ UNCHANGED <<pd, s3, env, now, inv, budget>>

\* The wall clock advances by a second while an invocation is about to
\* build a caller reference and the current second was used for one.
ClockTick ==
    /\ now < MaxTime
    /\ \E i \in DOMAIN cc.procs : cc.procs[i].pc = "CreateHostedZone"
    /\ \E ref \in r53.refs : ref[3] = now
    /\ now' = now + 1
    /\ UNCHANGED <<pd, r53, s3, env, inv, budget, cc>>

NextConcurrent == ReconcileCall \/ ClockTick

SpecConcurrent == InitConcurrent /\ [][NextConcurrent]_vars

-----------------------------------------------------------------------------
(* Properties. *)

HasToken(p) == p.exists /\ finalizerName \in p.finalizers

\* A step of Reconcile: the clock and the deletion marker are as before.
\* (Tick moves the clock, MarkDeletion sets the marker.)
ReconcileStep == now' = now /\ pd'.deletion = pd.deletion

\* The step removes the finalizer token from the persisted intent.
TokenRemoved == HasToken(pd) /\ ~HasToken(pd')


DomainZones(r) == ZonesNamed(r, ZoneNameOf(DomainName))

\* C1: an invocation on a deleting intent that holds the token removes the
\* token only if both cleanupS3Bucket and cleanupRoute53Zone returned success
\* in that invocation; if either returned an error, the persisted intent
\* (its finalizers included) is as before.
C1_FinalizerSafety ==
    [][(ReconcileStep /\ pd.deletion /\ HasToken(pd)) =>
          /\ TokenRemoved => (inv'.bucketCleanup = NoErr /\ inv'.zoneCleanup = NoErr)
          /\ (inv'.bucketCleanup \notin {NoErr, "skip"} \/ inv'.zoneCleanup \notin {NoErr, "skip"})
                => pd' = pd]_vars

\* C1 witness: a teardown that deleted the bucket and the zone and then
\* removed the token.
C1_Witness ==
    /\ inv.path = "delete" /\ inv.result = NoErr
    /\ ~HasToken(pd)
    /\ Succeeded(inv.calls, "DeleteBucket") /\ Succeeded(inv.calls, "DeleteHostedZone")

\* The zones the engine created, and the zone whose id it persisted.
EngineZones(p, r) ==
    {z \in DomainZones(r) : z = p.status.ZoneID \/ \E i \in 1..r.created : z = ZoneIdTable[i]}

\* C2: whenever the engine has removed the token, no bucket of the domain's
\* name and no zone of the domain's name that the engine created or adopted
\* exists any more.
C2_NoLeakAfterFinalizerRemoval ==
    (inv.path = "delete" /\ inv.result = NoErr /\ ~HasToken(pd)) =>
        (~s3.exists /\ EngineZones(pd, r53) = {})

\* The persisted status of a provisioned intent.
Provisioned(p) ==
    /\ p.status.Status = "Provisioned"
    /\ p.status.ZoneID # ""
    /\ Len(p.status.NameServers) >= 1

\* C3: without faults and without a zone of the domain's name at the start,
\* repeated invocations eventually persist Provisioned with a zone id and at
\* least one name server (unless the intent is marked for deletion first);
\* and once a provisioned intent is marked for deletion, repeated invocations
\* eventually remove the token.
C3_EndToEnd ==
    /\ <>(pd.deletion \/ Provisioned(pd))
    /\ (Provisioned(pd) /\ pd.deletion) ~> ~HasToken(pd)

\* C3 witness: an intent that was provisioned, marked for deletion, and is
\* gone from the store after a teardown that deleted its zone and bucket.
C3_Witness ==
    /\ budget = 0
    /\ Provisioned(pd) /\ ~pd.exists
    /\ inv.path = "delete"
    /\ Succeeded(inv.calls, "DeleteHostedZone") /\ Succeeded(inv.calls, "DeleteBucket")
    /\ DomainZones(r53) = {} /\ ~s3.exists

\* Some call of `calls` to one of `ops` returned `res`.
Observed(calls, ops, res) ==
    \E i \in 1..Len(calls) : calls[i].op \in ops /\ calls[i].res = res

ZoneTeardownOps == {"ListResourceRecordSets", "ChangeResourceRecordSets", "DeleteHostedZone"}

BucketTeardownOps == {"ListObjectsV2", "DeleteObjects", "DeleteBucket"}

\* C4: a zone teardown with a non-empty zone id in which the record listing,
\* the record batch-delete or the zone delete found the zone absent
\* (NoSuchHostedZone) returns success.
C4_ZoneNotFoundIsSuccess ==
    (/\ inv.path = "delete"
     /\ inv.zoneCleanup # "skip"
     /\ Observed(inv.calls, ZoneTeardownOps, "NoSuchHostedZone"))
        => inv.zoneCleanup = NoErr

\* C5: a bucket teardown in which the object listing, the object batch-delete
\* or the bucket delete found the bucket absent (NoSuchBucket) returns success.
C5_BucketNotFoundIsSuccess ==
    (/\ inv.path = "delete"
     /\ inv.bucketCleanup # "skip"
     /\ Observed(inv.calls, BucketTeardownOps, "NoSuchBucket"))
        => inv.bucketCleanup = NoErr

\* The calls of the zone stage: those issued before the bucket stage's first.
RECURSIVE ZoneStageCalls(_)
ZoneStageCalls(calls) ==
    IF calls = <<>> \/ Head(calls).op \in {"GetClient", "HeadBucket"}
    THEN <<>>
    ELSE <<Head(calls)>> \o ZoneStageCalls(Tail(calls))

\* The records of every zone other than alias A records (the record stage's).
NonAliasRecords(r) ==
    [z \in DOMAIN r.zones |-> {x \in r.zones[z].records : x.type # "A"}]

\* C6: under the list-then-adopt zone helper, an invocation that finds a
\* zone named domainName + "." at the provider issues no CreateHostedZone,
\* its zone stage issues no record change and no delete, and the provider's
\* zones (and their records, the record stage's alias aside) are as before;
\* when the zone stage succeeds it returns the id and the name servers of
\* such a zone.
C6_AdoptionMutatesNothing ==
    [][(/\ ReconcileStep
        /\ env.zoneImpl = "adopt"
        /\ pd.exists /\ ~pd.deletion
        /\ DomainZones(r53) # {}
        /\ inv'.zone # "skip")
          => /\ ~Issued(inv'.calls, "CreateHostedZone")
             /\ \A i \in 1..Len(ZoneStageCalls(inv'.calls)) :
                    ZoneStageCalls(inv'.calls)[i].op \notin MutatingOps
             /\ DOMAIN r53'.zones = DOMAIN r53.zones
             /\ r53'.refs = r53.refs /\ r53'.created = r53.created
             /\ NonAliasRecords(r53') = NonAliasRecords(r53)
             /\ inv'.zone = NoErr =>
                    /\ inv'.zoneID \in DomainZones(r53)
                    /\ inv'.nameservers = DelegationSet(inv'.zoneID)]_vars

\* C6 witness: the zone that existed before the intent was adopted, and the
\* provider has created none.
C6_Witness ==
    /\ env.zoneImpl = "adopt"
    /\ inv.path = "create" /\ inv.zone = NoErr
    /\ inv.zoneID = PreZoneId /\ inv.nameservers = DelegationSet(PreZoneId)
    /\ Succeeded(inv.calls, "GetHostedZone")
    /\ r53.created = 0 /\ DomainZones(r53) = {PreZoneId}

\* C7: with invocations one after another, at most one zone named
\* domainName + "." exists at the provider.
C7_AtMostOneZone == Cardinality(DomainZones(r53)) <= 1

BucketStageOps == {"GetClient", "HeadBucket", "CreateBucket", "GetConfigMap", "PutObject",
                   "PutBucketWebsite", "PutBucketPolicy"}

\* The bucket stage of the invocation ran and none of its calls met a fault.
BucketStageUnfaulted(i) ==
    i.bucket # "skip" /\ ~Observed(i.calls, BucketStageOps, "Transient")

ArgsOf(calls, op) == {calls[i].arg : i \in {j \in 1..Len(calls) : calls[j].op = op}}

\* C8: when the bucket stage of the previous invocation succeeded and the
\* bucket stage runs again with the same domain, region and template and no
\* remote failure, it returns no error and the same endpoint, and the
\* storage state after it equals the state before it.
C8_BucketIdempotent ==
    [][(/\ ReconcileStep
        /\ inv.path = "create" /\ inv.bucket = NoErr
        /\ BucketStageUnfaulted(inv'))
          => /\ inv'.bucket = NoErr
             /\ inv'.endpoint = inv.endpoint
             /\ s3' = s3]_vars

\* C8 witness: Provisioned was persisted by an earlier invocation; this one
\* ran the bucket stage again on the existing bucket, successfully (its
\* status write failed, which is how the state shows it was not the first).
C8_Witness ==
    /\ inv.path = "create" /\ inv.bucket = NoErr
    /\ inv.status = "Transient" /\ pd.status.Status = "Provisioned"
    /\ ~Issued(inv.calls, "CreateBucket")
    /\ Succeeded(inv.calls, "PutObject") /\ Succeeded(inv.calls, "PutBucketPolicy")
    /\ s3.exists /\ s3.policy = PolicyFor(DomainName)

LaterStepErrors == {"failed to upload final index.html",
                    "failed to enable S3 static website hosting",
                    "failed to apply S3 bucket policy"}

\* C9: when the previous invocation's bucket stage created the bucket and
\* then failed at the upload, the website mode or the policy, a bucket stage
\* that runs next without a remote failure issues no CreateBucket, issues
\* PutObject, PutBucketWebsite and PutBucketPolicy, uploads the content the
\* failed call uploaded, returns no error, and leaves the public-read policy
\* on the bucket.
C9_BucketResumes ==
    [][(/\ ReconcileStep
        /\ inv.path = "create"
        /\ Succeeded(inv.calls, "CreateBucket")
        /\ inv.bucket \in LaterStepErrors
        /\ BucketStageUnfaulted(inv'))
          => /\ ~Issued(inv'.calls, "CreateBucket")
             /\ Succeeded(inv'.calls, "PutObject")
             /\ Succeeded(inv'.calls, "PutBucketWebsite")
             /\ Succeeded(inv'.calls, "PutBucketPolicy")
             /\ ArgsOf(inv'.calls, "PutObject") = ArgsOf(inv.calls, "PutObject")
             /\ inv'.bucket = NoErr
             /\ s3'.exists
             /\ s3'.objects["index.html"] \in ArgsOf(inv.calls, "PutObject")
             /\ s3'.website = "index.html"
             /\ s3'.policy = PolicyFor(DomainName)]_vars

\* C9 witness: an earlier invocation created the bucket and left the tag of
\* a failed bucket stage; this one found the bucket, ran the later steps and
\* succeeded (its status write failed, so the tag is still there).
C9_Witness ==
    /\ inv.path = "create" /\ inv.bucket = NoErr
    /\ inv.status = "Transient" /\ pd.status.Status = "Error: S3 Bucket"
    /\ ~Issued(inv.calls, "CreateBucket") /\ Succeeded(inv.calls, "HeadBucket")
    /\ Succeeded(inv.calls, "PutObject") /\ Succeeded(inv.calls, "PutBucketWebsite")
    /\ Succeeded(inv.calls, "PutBucketPolicy")
    /\ "old.html" \notin DOMAIN s3.objects
    /\ s3.policy = PolicyFor(DomainName)

\* The alias zone of every region of the fixed table, and of the unset
\* region (taken for eu-central-1), as the specification lists them.
AliasZoneOf ==
    {<<"us-east-1", "us-east-1", "Z3AQBSTGFYJSTF">>,
     <<"us-west-1", "us-west-1", "Z2F56UZL2M1ACD">>,
     <<"us-west-2", "us-west-2", "Z3BJ6K6RIION7M">>,
     <<"eu-west-1", "eu-west-1", "Z1BKCTXD74EZPE">>,
     <<"eu-central-1", "eu-central-1", "Z21DNDUVLTQW6Q">>,
     <<"", "eu-central-1", "Z21DNDUVLTQW6Q">>}

RecordChanges(calls) == {i \in 1..Len(calls) : calls[i].op = "ChangeResourceRecordSets"}

\* C10: for a region of the fixed table, or unset, an invocation whose
\* record stage ran issued exactly one record change: an UPSERT in the zone
\* stage's zone of an A alias record named domainName, whose target is the
\* endpoint the bucket stage returned and whose alias zone is the table's
\* entry for the region; and that endpoint is built from the same region.
C10_AliasRecord ==
    \A e \in AliasZoneOf :
        (inv.path = "create" /\ inv.record # "skip" /\ pd.region = e[1]) =>
            /\ Cardinality(RecordChanges(inv.calls)) = 1
            /\ \A i \in RecordChanges(inv.calls) :
                  /\ inv.calls[i].target = inv.zoneID
                  /\ inv.calls[i].arg = <<"UPSERT", DomainName, "A", e[3], inv.endpoint>>
            /\ inv.endpoint = DomainName \o ".s3-website." \o e[2] \o ".amazonaws.com"

\* C10 witness: the alias record of an intent in us-west-2 is in the zone.
C10_Witness ==
    /\ pd.region = "us-west-2"
    /\ inv.path = "create" /\ inv.record = NoErr
    /\ Succeeded(inv.calls, "ChangeResourceRecordSets")
    /\ [name |-> DomainName, type |-> "A", aliasZone |-> "Z3BJ6K6RIION7M",
        dnsName |-> "test.example.com.s3-website.us-west-2.amazonaws.com"]
           \in r53.zones[inv.zoneID].records

\* The regions of the fixed table, as the specification lists them.
TableRegions == {"us-east-1", "us-west-1", "us-west-2", "eu-west-1", "eu-central-1"}

UnsupportedRegion(p) == p.region # "" /\ p.region \notin TableRegions

LastCall(calls) == calls[Len(calls)]

\* C11: for a region outside the fixed table the record stage returns an
\* error and no record change is issued; the invocation returns that error
\* and writes the record stage's tag (persisted unless the write fails); no
\* alias record ever appears at the provider.  This holds of every
\* invocation, so of every later one too.
C11_UnsupportedRegion ==
    (inv.path = "create" /\ inv.record # "skip" /\ UnsupportedRegion(pd)) =>
        /\ ~Issued(inv.calls, "ChangeResourceRecordSets")
        /\ inv.record = "unsupported S3 website region for alias record"
        /\ inv.result = inv.record
        /\ LastCall(inv.calls).op = "Status.Update"
        /\ LastCall(inv.calls).arg[1] = "Error: Route53 A Record"
        /\ inv.status = NoErr => pd.status.Status = "Error: Route53 A Record"
        /\ \A z \in DOMAIN r53.zones : \A x \in r53.zones[z].records : x.type # "A"

\* C11 witness: zone and bucket exist, the region is ap-south-1, and the
\* record stage's tag is persisted.
C11_Witness ==
    /\ pd.region = "ap-south-1"
    /\ inv.path = "create" /\ inv.zone = NoErr /\ inv.bucket = NoErr
    /\ inv.record = "unsupported S3 website region for alias record"
    /\ pd.status.Status = "Error: Route53 A Record"
    /\ s3.exists /\ DomainZones(r53) # {}

ErrorTags == {"Error: Route53 Zone", "Error: S3 Bucket", "Error: Route53 A Record"}

StageFailed(res) == res \notin {NoErr, "skip"}

\* C12: whenever an invocation returned the error of a failed stage, the
\* persisted status tag is the Error tag of that stage (an Error tag, for a
\* teardown stage).
C12_ErrorTagPersisted ==
    /\ StageFailed(inv.zone) => pd.status.Status = "Error: Route53 Zone"
    /\ StageFailed(inv.bucket) => pd.status.Status = "Error: S3 Bucket"
    /\ StageFailed(inv.record) => pd.status.Status = "Error: Route53 A Record"
    /\ StageFailed(inv.bucketCleanup) => pd.status.Status \in ErrorTags
    /\ StageFailed(inv.zoneCleanup) => pd.status.Status \in ErrorTags

\* C13: a persisted zone id that is not empty does not become empty, and an
\* invocation of the create path that returns an error leaves the persisted
\* zone id and name servers as they were.
C13_ZoneIDKept ==
    [][pd.status.ZoneID # "" =>
          /\ pd'.status.ZoneID # ""
          /\ (ReconcileStep /\ inv'.path = "create" /\ inv'.result # NoErr) =>
                /\ pd'.status.ZoneID = pd.status.ZoneID
                /\ pd'.status.NameServers = pd.status.NameServers]_vars

\* C13 witness: an Error tag was written over a status that held a zone id.
C13_Witness ==
    /\ pd.status.Status \in ErrorTags
    /\ pd.status.ZoneID # "" /\ Len(pd.status.NameServers) >= 1
    /\ inv.path = "create" /\ inv.status = NoErr /\ inv.result # NoErr

\* C14: an invocation that adds the finalizer token issues nothing but the
\* fetch and the update of the intent: no driver call and no status write.
C14_AddFinalizerThenReturn ==
    (\E i \in 1..Len(inv.calls) :
        inv.calls[i].op = "Update" /\ inv.calls[i].arg = <<"AddFinalizer">>
                                   /\ inv.calls[i].res = NoErr)
        => \A i \in 1..Len(inv.calls) : inv.calls[i].op \in {"Get", "Update"}

\* C15: once faults have stopped, an intent that is marked for deletion and
\* holds the token eventually loses the token.
C15_TeardownResumes == (pd.deletion /\ HasToken(pd)) ~> ~HasToken(pd)

\* C16: an invocation whose CreateHostedZone met HostedZoneAlreadyExists has
\* a zone stage that returns no error, the id of an existing zone named
\* domainName + "." and that zone's name servers.
C16_ConflictFallsBackToAdoption ==
    (inv.path = "create" /\ Observed(inv.calls, {"CreateHostedZone"}, "HostedZoneAlreadyExists"))
        => /\ inv.zone = NoErr
           /\ inv.zoneID \in DomainZones(r53)
           /\ inv.nameservers = DelegationSet(inv.zoneID)

\* C17: every zone id the zone stage returns is the bare id of a provider
\* zone named domainName + ".", and every persisted zone id is a bare
\* provider id, never the placeholder.
C17_NoPlaceholder ==
    /\ (inv.path = "create" /\ inv.zone = NoErr) => inv.zoneID \in DomainZones(r53)
    /\ pd.status.ZoneID # "" => pd.status.ZoneID \in BareIds

\* No call of the invocation met a fault.
Unfaulted(i) == \A k \in 1..Len(i.calls) : i.calls[k].res # "Transient"

FrameUnchanged == pd' = pd /\ r53' = r53 /\ s3' = s3

\* C18: an invocation for an intent that is not in the store returns success;
\* an invocation whose fetch fails otherwise returns an error; either one
\* issues no call but the fetch and writes nothing.
C18_FetchOutcomes ==
    [][ReconcileStep =>
          /\ (~pd.exists /\ Unfaulted(inv')) => (inv'.path = "notfound" /\ inv'.result = NoErr)
          /\ Observed(inv'.calls, {"Get"}, "Transient") =>
                 (inv'.path = "geterror" /\ inv'.result # NoErr)
          /\ inv'.path \in {"notfound", "geterror"} =>
                 (Len(inv'.calls) = 1 /\ FrameUnchanged)]_vars

\* C18 witness: the intent is gone from the store and the last invocation
\* found nothing to do.
C18_Witness ==
    /\ ~pd.exists
    /\ inv.path = "notfound" /\ inv.result = NoErr
    /\ Observed(inv.calls, {"Get"}, "NotFound")

\* C19: an invocation on an intent that is marked for deletion and does not
\* hold the token returns success, issues no call but the fetch, and changes
\* neither the intent (finalizers, status) nor the remote systems.
C19_DeletingWithoutTokenIsNoOp ==
    [][(ReconcileStep /\ pd.exists /\ pd.deletion /\ ~HasToken(pd) /\ Unfaulted(inv')) =>
          /\ inv'.path = "deleted" /\ inv'.result = NoErr
          /\ Len(inv'.calls) = 1
          /\ FrameUnchanged]_vars

\* C19 witness: an intent held back by somebody else's finalizer, marked
\* for deletion, on which the operator did nothing.
C19_Witness ==
    /\ pd.exists /\ pd.deletion /\ pd.finalizers = {ForeignFinalizer}
    /\ inv.path = "deleted" /\ inv.result = NoErr

\* The alias records of the intent's domain in a zone.
AliasRecordsIn(r, z) == {x \in r.zones[z].records : x.type = "A" /\ x.name = DomainName}

\* C20: an invocation without faults on a Provisioned intent that is not
\* being deleted succeeds and leaves the remote systems and the persisted
\* intent as they were: the persisted zone, the bucket and one alias record
\* (and, under the list-then-adopt helper, one zone of the domain's name).
C20_SteadyState ==
    [][(ReconcileStep /\ pd.exists /\ ~pd.deletion /\ Provisioned(pd) /\ Unfaulted(inv')) =>
          /\ inv'.path = "create" /\ inv'.result = NoErr
          /\ FrameUnchanged
          /\ pd'.status.ZoneID \in DomainZones(r53')
          /\ Cardinality(AliasRecordsIn(r53', pd'.status.ZoneID)) = 1
          /\ s3'.exists /\ s3'.website = "index.html" /\ s3'.policy = PolicyFor(DomainName)
          /\ env.zoneImpl = "adopt" => Cardinality(DomainZones(r53')) = 1]_vars

\* C20 witness: a Provisioned intent whose last invocation found the token,
\* the zone and the bucket in place and succeeded.
C20_Witness ==
    /\ pd.exists /\ ~pd.deletion /\ Provisioned(pd)
    /\ inv.path = "create" /\ inv.result = NoErr
    /\ ~Issued(inv.calls, "Update") /\ ~Issued(inv.calls, "CreateBucket")
    /\ ~Issued(inv.calls, "CreateHostedZone")
    /\ Succeeded(inv.calls, "GetHostedZone") /\ Succeeded(inv.calls, "HeadBucket")
    /\ Cardinality(AliasRecordsIn(r53, pd.status.ZoneID)) = 1

\* The calls of the zone, bucket and record drivers on the create path.
ZoneStageOps == {"ListHostedZonesByName", "GetHostedZone", "CreateHostedZone"}

EnsureDriverOps == ZoneStageOps \cup BucketStageOps \cup {"ChangeResourceRecordSets"}

\* The positions of the calls of the given operations.
Positions(calls, ops) == {k \in 1..Len(calls) : calls[k].op \in ops}

\* Every call of ops1 comes before every call of ops2.
AllBefore(calls, ops1, ops2) ==
    \A j \in Positions(calls, ops1), k \in Positions(calls, ops2) : j < k

\* C21: on the create path no driver call is issued unless the token is
\* persisted (a failed finalizer update ends the invocation with no driver
\* call and no change); the calls run in the order finalizer update, zone,
\* bucket, record, status; the record upsert is issued only after the zone
\* stage and the bucket stage succeeded in the invocation; a stage that
\* fails keeps every later stage from running.
C21_CreateOrder ==
    [][(ReconcileStep /\ pd.exists /\ ~pd.deletion) =>
          LET c == inv'.calls
          IN /\ Positions(c, EnsureDriverOps) # {} =>
                    /\ HasToken(pd')
                    /\ HasToken(pd) \/ Succeeded(c, "Update")
                    /\ AllBefore(c, {"Update"}, EnsureDriverOps)
             /\ Observed(c, {"Update"}, "Transient") =>
                    (Positions(c, EnsureDriverOps) = {} /\ FrameUnchanged
                        /\ inv'.result # NoErr /\ ~Issued(c, "Status.Update"))
             /\ AllBefore(c, ZoneStageOps, BucketStageOps \cup {"ChangeResourceRecordSets"})
             /\ AllBefore(c, BucketStageOps, {"ChangeResourceRecordSets"})
             /\ AllBefore(c, EnsureDriverOps, {"Status.Update"})
             /\ Issued(c, "ChangeResourceRecordSets") =>
                    (inv'.zone = NoErr /\ inv'.bucket = NoErr)
             /\ StageFailed(inv'.zone) =>
                    (inv'.bucket = "skip" /\ inv'.record = "skip"
                        /\ Positions(c, BucketStageOps \cup {"ChangeResourceRecordSets"}) = {})
             /\ StageFailed(inv'.bucket) =>
                    (inv'.record = "skip" /\ ~Issued(c, "ChangeResourceRecordSets"))
             /\ (StageFailed(inv'.zone) \/ StageFailed(inv'.bucket) \/ StageFailed(inv'.record)) =>
                    (inv'.result # NoErr
                        /\ \A k \in Positions(c, {"Status.Update"}) :
                               c[k].arg[1] \in ErrorTags)]_vars

\* C21 witness: an invocation that persisted the token, created the zone,
\* failed in the bucket stage and skipped the record stage.
C21_Witness ==
    /\ inv.path = "create" /\ HasToken(pd)
    /\ Succeeded(inv.calls, "Update") /\ Succeeded(inv.calls, "CreateHostedZone")
    /\ StageFailed(inv.bucket) /\ inv.record = "skip"
    /\ ~Issued(inv.calls, "ChangeResourceRecordSets")

\* The calls only the ensure drivers issue.
EnsureOnlyOps == ZoneStageOps \cup {"HeadBucket", "CreateBucket", "GetConfigMap", "PutObject",
                                    "PutBucketWebsite", "PutBucketPolicy"}

\* C22: on the delete path the calls run in the order bucket teardown, zone
\* teardown, finalizer removal; an invocation whose bucket teardown returned
\* an error issues no zone teardown call and no finalizer update; no ensure
\* call (zone list or create, bucket create, upload, configuration, record
\* upsert) and no status write is issued.
C22_DeleteOrder ==
    [][(ReconcileStep /\ pd.exists /\ pd.deletion /\ HasToken(pd)) =>
          LET c == inv'.calls
          IN /\ AllBefore(c, BucketTeardownOps \cup {"GetClient"}, ZoneTeardownOps \cup {"Update"})
             /\ AllBefore(c, ZoneTeardownOps, {"Update"})
             /\ StageFailed(inv'.bucketCleanup) =>
                    /\ inv'.zoneCleanup = "skip"
                    /\ Positions(c, ZoneTeardownOps \cup {"Update"}) = {}
                    /\ r53' = r53 /\ pd' = pd
                    /\ inv'.result # NoErr
             /\ Positions(c, ZoneTeardownOps) # {} => inv'.bucketCleanup = NoErr
             /\ Positions(c, EnsureOnlyOps \cup {"Status.Update"}) = {}
             /\ \A k \in Positions(c, {"ChangeResourceRecordSets"}) : c[k].arg[1] = "DELETE"]_vars

\* C22 witness: a teardown whose bucket stage failed and that left the zone
\* and the token in place.
C22_Witness ==
    /\ inv.path = "delete" /\ StageFailed(inv.bucketCleanup) /\ inv.zoneCleanup = "skip"
    /\ HasToken(pd) /\ pd.deletion
    /\ pd.status.ZoneID \in DomainZones(r53)
    /\ Positions(inv.calls, BucketTeardownOps) # {}

\* The records of the persisted zone that are not the zone's own NS and SOA.
NonApexRecords(p, r) ==
    IF p.status.ZoneID \in DOMAIN r.zones
    THEN {x \in r.zones[p.status.ZoneID].records : x.type \notin {"NS", "SOA"}}
    ELSE {}

\* The record types a batch delete names.
BatchTypes(arg) == {arg[k] : k \in 2..Len(arg)}

\* C23: a zone teardown with a non-empty zone id whose listing succeeded
\* issues exactly one batch delete naming every record that is neither NS
\* nor SOA (none if there is no such record) and never an NS or SOA record;
\* the zone delete is issued only after the listing and the batch delete
\* succeeded; with an empty zone id the teardown succeeds with no call.
C23_ZoneTeardownBatch ==
    [][(ReconcileStep /\ pd.exists /\ pd.deletion /\ inv'.zoneCleanup # "skip") =>
          LET c == inv'.calls
              batches == Positions(c, {"ChangeResourceRecordSets"})
          IN /\ pd.status.ZoneID = "" =>
                    (inv'.zoneCleanup = NoErr /\ Positions(c, ZoneTeardownOps) = {} /\ r53' = r53)
             /\ pd.status.ZoneID # "" => CountOp(c, "ListResourceRecordSets") = 1
             /\ Succeeded(c, "ListResourceRecordSets") =>
                    /\ Cardinality(batches) = IF NonApexRecords(pd, r53) = {} THEN 0 ELSE 1
                    /\ \A k \in batches :
                          /\ c[k].arg[1] = "DELETE"
                          /\ BatchTypes(c[k].arg) = {x.type : x \in NonApexRecords(pd, r53)}
                          /\ BatchTypes(c[k].arg) \cap {"NS", "SOA"} = {}
             /\ ~Succeeded(c, "ListResourceRecordSets") =>
                    Positions(c, {"ChangeResourceRecordSets", "DeleteHostedZone"}) = {}
             /\ Issued(c, "DeleteHostedZone") =>
                    /\ batches # {} => Succeeded(c, "ChangeResourceRecordSets")
                    /\ AllBefore(c, {"ListResourceRecordSets", "ChangeResourceRecordSets"},
                                 {"DeleteHostedZone"})
             /\ Succeeded(c, "DeleteHostedZone") => pd.status.ZoneID \notin DOMAIN r53'.zones]_vars

\* C23 witness: the teardown of an adopted zone that held the alias record
\* and a record of somebody else: both were deleted in one batch, then the
\* zone.
C23_Witness ==
    /\ inv.path = "delete" /\ inv.zoneCleanup = NoErr
    /\ \E k \in Positions(inv.calls, {"ChangeResourceRecordSets"}) :
          inv.calls[k].arg = <<"DELETE", "A", "TXT">> /\ inv.calls[k].res = NoErr
    /\ Succeeded(inv.calls, "DeleteHostedZone")
    /\ PreZoneId \notin DOMAIN r53.zones

\* The keys the DeleteObjects calls of an invocation named.
DeletedKeys(calls) ==
    UNION {SeqRange(calls[k].arg) : k \in Positions(calls, {"DeleteObjects"})}

\* C24: a bucket teardown issues DeleteBucket only after every listing and
\* every object batch-delete of the call succeeded, the batches naming every
\* key of the bucket; if a listing or a batch-delete fails with an error
\* other than bucket-not-found, DeleteBucket is not issued and the teardown
\* (and the invocation) returns an error.
C24_BucketDeleteLast ==
    [][(ReconcileStep /\ pd.exists /\ pd.deletion /\ inv'.bucketCleanup # "skip") =>
          LET c == inv'.calls
              paged == Positions(c, {"ListObjectsV2", "DeleteObjects"})
          IN /\ Issued(c, "DeleteBucket") =>
                    /\ \A k \in paged : c[k].res = NoErr
                    /\ AllBefore(c, {"ListObjectsV2", "DeleteObjects"}, {"DeleteBucket"})
                    /\ Issued(c, "ListObjectsV2")
                    /\ DeletedKeys(c) = SeqRange(ListedKeys(s3))
                    /\ CountOp(c, "DeleteBucket") = 1
             /\ (\E k \in paged : c[k].res \notin {NoErr, "NoSuchBucket"}) =>
                    /\ ~Issued(c, "DeleteBucket")
                    /\ StageFailed(inv'.bucketCleanup)
                    /\ inv'.result # NoErr]_vars

\* C24 witness: a teardown that listed two pages, deleted the keys of both
\* and then deleted the bucket.
C24_Witness ==
    /\ inv.path = "delete" /\ inv.bucketCleanup = NoErr
    /\ DeletedKeys(inv.calls) = {"index.html", "old.html"}
    /\ CountOp(inv.calls, "DeleteObjects") = 2
    /\ Succeeded(inv.calls, "DeleteBucket") /\ ~s3.exists

\* The calls that remove remote state.
RemovingOps == {"DeleteObjects", "DeleteBucket", "DeleteHostedZone"}

\* C25: an invocation whose status write failed returns an error, after a
\* failed stage and after three successful stages alike; the persisted
\* status is as before; and what the invocation applied remotely stays
\* applied: it issues no removing call, and the zone, bucket, object,
\* configuration, policy and record it wrote are there after it.
C25_StatusWriteFailure ==
    [][(ReconcileStep /\ Observed(inv'.calls, {"Status.Update"}, "Transient")) =>
          LET c == inv'.calls
          IN /\ inv'.result # NoErr
             /\ pd'.status = pd.status
             /\ Positions(c, RemovingOps) = {}
             /\ \A k \in Positions(c, {"ChangeResourceRecordSets"}) : c[k].arg[1] = "UPSERT"
             /\ DOMAIN r53.zones \subseteq DOMAIN r53'.zones
             /\ Succeeded(c, "CreateHostedZone") =>
                    (inv'.zoneID \in DomainZones(r53') /\ inv'.zoneID \notin DOMAIN r53.zones)
             /\ Succeeded(c, "CreateBucket") => (s3'.exists /\ ~s3.exists)
             /\ Succeeded(c, "PutObject") => "index.html" \in DOMAIN s3'.objects
             /\ Succeeded(c, "PutBucketWebsite") => s3'.website = "index.html"
             /\ Succeeded(c, "PutBucketPolicy") => s3'.policy = PolicyFor(DomainName)
             /\ Succeeded(c, "ChangeResourceRecordSets") =>
                    Cardinality(AliasRecordsIn(r53', inv'.zoneID)) = 1]_vars

\* C25 witness: all three stages succeeded on a fresh intent, the write of
\* the Provisioned status failed, the invocation returned an error and the
\* zone, the bucket and the record are in place.
C25_Witness ==
    /\ inv.path = "create" /\ inv.record = NoErr /\ inv.status = "Transient"
    /\ inv.result # NoErr
    /\ pd.status = EmptyStatus
    /\ Succeeded(inv.calls, "CreateHostedZone") /\ Succeeded(inv.calls, "CreateBucket")
    /\ s3.exists /\ Cardinality(AliasRecordsIn(r53, inv.zoneID)) = 1

\* The intent is Provisioned and its zone id is the id of the one zone of
\* the domain's name.
Converged ==
    Provisioned(pd) /\ DomainZones(r53) = {pd.status.ZoneID}

\* C26: with finitely many faults and Reconcile invoked again and again, an
\* intent with a supported region that is not being deleted, whatever an
\* earlier failed invocation left behind, eventually is Provisioned with the
\* id of the single zone of its domain (or is marked for deletion first).
C26_Convergence ==
    (pd.exists /\ ~pd.deletion /\ ~UnsupportedRegion(pd)) ~> (pd.deletion \/ Converged)

\* C29: a step adds the token only to an intent whose deletion marker is
\* not set, and leaves the marker unset; a step removes the token only from
\* an intent whose marker is set; the marker, once set, stays set.  So the
\* token is never added to a deleting intent and never added again after
\* it was removed.
C29_TokenMovesForward ==
    [][/\ (~HasToken(pd) /\ HasToken(pd')) => (pd.exists /\ ~pd.deletion /\ ~pd'.deletion)
       /\ TokenRemoved => pd.deletion
       /\ pd.deletion => pd'.deletion
       /\ ~pd.exists => ~pd'.exists
       /\ (pd.exists /\ pd.deletion /\ ~HasToken(pd)) => ~HasToken(pd')]_vars

\* C29 witness: an intent that was Provisioned (so it held the token), lost
\* the token in its teardown, is kept in the store by somebody else's
\* finalizer, and was reconciled again without getting the token back.
C29_Witness ==
    /\ pd.exists /\ pd.deletion /\ pd.finalizers = {ForeignFinalizer}
    /\ pd.status.Status = "Provisioned"
    /\ inv.path = "deleted"

\* C30: a persisted Provisioned status has a non-empty zone id and the name
\* servers of that zone; a step that changes the persisted status to a
\* Provisioned one writes the tag, the zone id and the name servers the
\* invocation's zone stage returned, in the invocation's only status write.
C30_ProvisionedStatusWhole ==
    [][(ReconcileStep /\ pd'.status.Status = "Provisioned") =>
          /\ pd'.status.ZoneID # ""
          /\ pd'.status.NameServers = DelegationSet(pd'.status.ZoneID)
          /\ pd'.status # pd.status =>
                /\ inv'.zone = NoErr /\ inv'.status = NoErr
                /\ pd'.status.ZoneID = inv'.zoneID
                /\ pd'.status.NameServers = inv'.nameservers
                /\ CountOp(inv'.calls, "Status.Update") = 1
                /\ LastCall(inv'.calls).op = "Status.Update"
                /\ LastCall(inv'.calls).arg = <<"Provisioned", inv'.zoneID>>]_vars

\* C30 witness: the invocation that adopted a zone found at the provider and
\* wrote the Provisioned status with that zone's id and name servers.
C30_Witness ==
    /\ pd.status = [Status |-> "Provisioned", ZoneID |-> PreZoneId,
                    NameServers |-> DelegationSet(PreZoneId)]
    /\ inv.path = "create" /\ inv.status = NoErr
    /\ inv.zoneID = PreZoneId /\ inv.nameservers = DelegationSet(PreZoneId)
    /\ Succeeded(inv.calls, "GetHostedZone") /\ Succeeded(inv.calls, "Update")

\* The other of the two invocations.
Other(i) == 3 - i

AllDone == \A i \in DOMAIN cc.procs : cc.procs[i].pc = "done"

DifferentDomains == cc.store[1].domainName # cc.store[2].domainName

\* The zones of a domain's name, with their records.
ZonesOf(r, domainName) ==
    [z \in ZonesNamed(r, ZoneNameOf(domainName)) |-> r.zones[z]]

\* The intent as it was created.
Fresh(p) == [p EXCEPT !.finalizers = {}, !.status = EmptyStatus]

\* The outcomes of one whole invocation without faults.
RunsOf(p, r, b, cfg, t) ==
    {ReconcileOutcome(p, r, b, cfg, t, NoFail, FALSE, "none", f) :
        f \in FirstInputs(r, p.domainName)}

\* What is left when a whole invocation for x runs, then a whole one for y:
\* the two intents, the two buckets and the DNS provider.
SerialFinals(x, y, cfg) ==
    UNION {UNION {{[px |-> o1.pd, py |-> o2.pd, bx |-> o1.s3, by |-> o2.s3, r53 |-> o2.r53] :
                      o2 \in RunsOf(y, o1.r53, AbsentBucket, cfg, t[2])} :
                  o1 \in RunsOf(x, Provider({}), AbsentBucket, cfg, t[1])} :
           t \in {u \in (0..MaxTime) \X (0..MaxTime) : u[1] <= u[2]}}

\* The two intents, the two buckets and the provider as they are, the
\* intent of invocation i first.
FinalFrom(i) ==
    [px |-> cc.store[i], py |-> cc.store[Other(i)],
     bx |-> cc.buckets[cc.store[i].domainName],
     by |-> cc.buckets[cc.store[Other(i)].domainName], r53 |-> r53]

Serializable ==
    \E i \in DOMAIN cc.procs :
        FinalFrom(i) \in SerialFinals(Fresh(cc.store[i]), Fresh(cc.store[Other(i)]), env)

\* C27: with two invocations in flight for intents of different keys and
\* different domains, a call of one invocation leaves the other intent
\* (finalizers and status), its bucket, its zones and their records, and the
\* other invocation's locals as they were; and when both have returned, the
\* intents, buckets and zones are what running one whole invocation and then
\* the other leaves.
C27_DistinctKeysIndependent ==
    [][DifferentDomains =>
          /\ \A i \in DOMAIN cc.procs :
                cc'.procs[i] # cc.procs[i] =>
                    /\ cc'.procs[Other(i)] = cc.procs[Other(i)]
                    /\ cc'.store[Other(i)] = cc.store[Other(i)]
                    /\ cc'.buckets[cc.store[Other(i)].domainName]
                          = cc.buckets[cc.store[Other(i)].domainName]
                    /\ ZonesOf(r53', cc.store[Other(i)].domainName)
                          = ZonesOf(r53, cc.store[Other(i)].domainName)
          /\ AllDone' => Serializable']_vars

\* C27 witness: both invocations in flight between their bucket calls, each
\* with its own zone and its own bucket.
C27_Witness ==
    /\ DifferentDomains
    /\ cc.procs[1].pc = "PutBucketWebsite" /\ cc.procs[2].pc = "PutBucketPolicy"
    /\ \A i \in DOMAIN cc.procs :
          /\ ZonesNamed(r53, ZoneNameOf(cc.store[i].domainName)) = {cc.procs[i].zoneID}
          /\ cc.buckets[cc.store[i].domainName].exists
    /\ cc.procs[1].zoneID # cc.procs[2].zoneID

\* C28: when an invocation whose zone stage found no zone to adopt issues
\* CreateHostedZone for a domain of which a zone exists by now (created by
\* the invocation of another intent for the same domain), the provider
\* accepts the call, the caller references being different: one more zone
\* of that name exists after it.
C28_DuplicateZoneRace ==
    [][\A i \in DOMAIN cc.procs :
          (/\ cc.procs[i].pc = "CreateHostedZone"
           /\ cc'.procs[i] # cc.procs[i]
           /\ cc.store[1].name # cc.store[2].name
           /\ ZonesNamed(r53, ZoneNameOf(cc.store[i].domainName)) # {}) =>
              /\ r53'.created = r53.created + 1
              /\ cc'.procs[i].zoneID \notin DOMAIN r53.zones
              /\ ZonesNamed(r53', ZoneNameOf(cc.store[i].domainName))
                    = ZonesNamed(r53, ZoneNameOf(cc.store[i].domainName))
                        \cup {cc'.procs[i].zoneID}
              /\ Cardinality(r53'.refs) = Cardinality(r53.refs) + 1]_vars

\* C28 witness: under the list-then-adopt helper both invocations listed no
\* zone of the domain, both created one in the same second, and two zones
\* of the domain's name exist.
C28_Witness ==
    /\ env.zoneImpl = "adopt" /\ ~DifferentDomains /\ now = 0
    /\ Cardinality(DomainZones(r53)) = 2
    /\ \A i \in DOMAIN cc.procs :
          /\ cc.procs[i].first = ""
          /\ cc.procs[i].zoneID \in DomainZones(r53)
    /\ cc.procs[1].zoneID # cc.procs[2].zoneID
    /\ Cardinality(r53.refs) = 2

====
